---- MODULE Spec2Model ----
(***************************************************************************)
(* Order / stock transaction flow of the e-commerce backend.               *)
(*                                                                         *)
(* The committed database (product stock, the stock_movements ledger, the  *)
(* orders) is shared by request handlers that each run in their own        *)
(* SQLAlchemy session, i.e. their own PostgreSQL transaction (READ         *)
(* COMMITTED): a SELECT sees committed rows, an UPDATE takes the row lock  *)
(* until the transaction ends, objects added to the session are inserted   *)
(* at commit, in the order they were added.                                *)
(*                                                                         *)
(* A handler takes one step per database round trip that another request   *)
(* can tell apart: a step starts with the UPDATE the handler is waiting    *)
(* to make (if any) and runs up to and including its next SELECT of a      *)
(* product, or up to the commit or rollback that ends the request.         *)
(* Amounts are whole cents.                                                *)
(*                                                                         *)
(* Spec runs the handlers in two sessions whose requests overlap; SeqSpec  *)
(* runs them one request after the other and records in `last` each        *)
(* response together with the database the request started from.           *)
(* ViewSpec runs overlapping requests of a product page (the views         *)
(* counter), UserSpec overlapping registrations (the users table).         *)
(*                                                                         *)
(* Read as written in the source: order.order_items yields the line items  *)
(* of the order, products are never deleted (no endpoint does), the wall   *)
(* clock has a resolution of one second, and an HTTPException raised by a  *)
(* handler reaches get_db, which rolls the transaction back.               *)
(***************************************************************************)
EXTENDS Integers, Sequences, FiniteSets, TLC

\* ---------------------------------------------------------------- bounds
MaxQty == 2
MaxLines == 2
MaxRequests == 3
MaxTime == 0
InitStock == 1
MaxViews == 4

\* ------------------------------------------------------------ the domain
Sessions == {1, 2}
OneSession == {1}
Users == {1, 2}
Products == {1, 2}
MissingProduct == 3
ProductIds == Products \cup {MissingProduct}

OrderStatus == {"PENDING", "CONFIRMED", "SHIPPED", "DELIVERED", "CANCELLED"}
StockMovementType == {"ENTRADA", "SALIDA", "AJUSTE"}

Price(p) == IF p = 1 THEN 500 ELSE 250

OrderItemCreate == [product_id : ProductIds, quantity : 1..MaxQty]
ItemLists == UNION {[1..n -> OrderItemCreate] : n \in 0..MaxLines}

VARIABLES stock, movements, orders, now, sess, created, last, requests,
          views_count, visit, visits, users, signup
vars == <<stock, movements, orders, now, sess, created, last, requests,
          views_count, visit, visits, users, signup>>

\* the order and stock flow; the product views and the user accounts
shop == <<stock, movements, orders, now, sess, created, last, requests>>
aside == <<views_count, visit, visits, users, signup>>

\* ------------------------------------------------------- session records
NoReq == [op |-> "none", user_id |-> 0, items |-> <<>>, order_id |-> 0,
          new_status |-> "none", product_id |-> 0, movement_type |-> "none",
          quantity |-> 0]
NoOrder == [id |-> 0, status |-> "none", items |-> <<>>, order_number |-> <<0, 0>>]
ZeroStock == [p \in Products |-> 0]

IdleSession == [pc |-> "idle", req |-> NoReq, ts |-> 0, i |-> 0,
                loaded |-> {}, cache |-> ZeroStock,
                wrote |-> {}, writes |-> ZeroStock,
                added |-> <<>>, db_items |-> <<>>, subtotal |-> 0,
                order |-> NoOrder]

\* the committed database
Snapshot == [stock |-> stock, movements |-> movements, orders |-> orders]

\* the response just sent, with the database as it was before the step that
\* ended the request
NoLast == [req |-> NoReq, res |-> 0, order |-> NoOrder,
           pre |-> [stock |-> ZeroStock, movements |-> <<>>, orders |-> <<>>]]

\* runs of overlapping requests are not observed: there the database before a
\* request's last step is not the database the request started from
Unobserved == [NoLast EXCEPT !.res = -1]

Response(r, code) ==
    IF last = Unobserved THEN Unobserved
    ELSE [req |-> r.req, res |-> code, order |-> r.order, pre |-> Snapshot]

NoResponse == IF last = Unobserved THEN Unobserved ELSE NoLast

\* a request is taken by the first free session, once the last response is out
Accepts(s) ==
    /\ sess[s].pc = "idle"
    /\ \A t \in DOMAIN sess : t < s => sess[t].pc # "idle"
    /\ last \in {NoLast, Unobserved}
    /\ requests < MaxRequests

\* the stock the transaction of session record r makes durable at commit
CommittedStock(r) ==
    [p \in Products |-> IF p \in r.wrote THEN r.writes[p] ELSE stock[p]]

\* mutation of Continue: every statement is committed as it is made
ContinueCommits(s, r) ==
    /\ stock' = CommittedStock(r)
    /\ movements' = movements \o r.added
    /\ sess' = [sess EXCEPT ![s] = [r EXCEPT !.added = <<>>]]
    /\ last' = NoResponse
    /\ UNCHANGED <<orders, created>>

\* a step that sends no response
Continue(s, r) ==
    /\ sess' = [sess EXCEPT ![s] = r]
    /\ last' = NoResponse
    /\ UNCHANGED <<stock, movements, orders, created>>

\* mutation of Rollback: the error path commits what the session holds
RollbackCommits(s, r, code) ==
    /\ stock' = CommittedStock(r)
    /\ movements' = movements \o r.added
    /\ sess' = [sess EXCEPT ![s] = IdleSession]
    /\ last' = Response(r, code)
    /\ UNCHANGED <<orders, created>>

\* mutation of Rollback: the failure is swallowed and success is answered
RollbackSwallowed(s, r, code) ==
    /\ sess' = [sess EXCEPT ![s] = IdleSession]
    /\ last' = Response(r, 200)
    /\ UNCHANGED <<stock, movements, orders, created>>

\* get_db on an exception: rollback drops the uncommitted UPDATEs and the
\* pending objects of the session, then the session is closed
Rollback(s, r, code) ==
    /\ sess' = [sess EXCEPT ![s] = IdleSession]
    /\ last' = Response(r, code)
    /\ UNCHANGED <<stock, movements, orders, created>>

\* select(Product).where(Product.id == p): the identity map keeps the object
\* a session has already loaded
ProductGet(r, p) == IF p \in r.loaded THEN r.cache[p] ELSE stock[p]

Loaded(r, p) == [r EXCEPT !.loaded = @ \cup {p}, !.cache = [@ EXCEPT ![p] = ProductGet(r, p)]]

\* mutation of ProductUpdate: the UPDATE leaves the loaded object as it was
ProductUpdateNoSync(r, p, v) ==
    [r EXCEPT !.wrote = @ \cup {p}, !.writes = [@ EXCEPT ![p] = v]]

\* update(Product).where(Product.id == p).values(stock_actual=v), which also
\* synchronizes the loaded object
ProductUpdate(r, p, v) ==
    [r EXCEPT !.wrote = @ \cup {p}, !.writes = [@ EXCEPT ![p] = v],
              !.cache = [@ EXCEPT ![p] = v]]

\* the row lock an UPDATE of product p needs
CanUpdate(s, p) == \A t \in Sessions \ {s} : p \notin sess[t].wrote

\* --------------------------------------------------------- product views
\* a request of GET /products/{id}: the product id and the views_count the
\* SELECT of the product returned
NoVisit == [pc |-> "idle", id |-> 0, seen |-> 0]

Catalog ==
    /\ views_count = [p \in Products |-> 0]
    /\ visit = [s \in Sessions |-> NoVisit]
    /\ visits = [id \in ProductIds |-> 0]

\* ---------------------------------------------------------- user accounts
UserRole == {"ADMIN", "CUSTOMER"}
Emails == {1, 2}
Usernames == {1, 2}

\* the body of POST /users; role is a field UserCreate does not declare
UserCreate == [email : Emails, username : Usernames, is_active : BOOLEAN,
               role : UserRole]

NoSignup == [pc |-> "idle",
             user_in |-> [email |-> 0, username |-> 0, is_active |-> FALSE,
                          role |-> "none"],
             res |-> 0]

Accounts ==
    /\ users = <<>>
    /\ signup = [s \in Sessions |-> NoSignup]

Database ==
    /\ stock = [p \in Products |-> InitStock]
    /\ movements = <<>>
    /\ orders = <<>>
    /\ now = 0
    /\ sess = [s \in Sessions |-> IdleSession]
    /\ created = <<>>
    /\ requests = 0
    /\ Catalog
    /\ Accounts

Init == Database /\ last = Unobserved

SeqInit == Database /\ last = NoLast

\* ------------------------------------------------------------ create_order
OrderNumber(ts, user_id) == <<ts, user_id>>

\* mutation of InsufficientStock: the comparison is off by one
InsufficientStockOffByOne(stock_actual, quantity) == stock_actual + 1 < quantity

\* "Verificar stock"
InsufficientStock(stock_actual, quantity) == stock_actual < quantity

\* mutation of SaleStockAfter: one unit is taken whatever the quantity
SaleStockAfterOneUnit(stock_before, quantity) == stock_before - 1

SaleStockAfter(stock_before, quantity) == stock_before - quantity

\* mutation of ItemSubtotal: the quantity is left out
ItemSubtotalOfOne(unit_price, quantity) == unit_price

ItemSubtotal(unit_price, quantity) == unit_price * quantity

OrderItem(product_id, quantity) ==
    [product_id |-> product_id, quantity |-> quantity,
     unit_price |-> Price(product_id),
     subtotal |-> ItemSubtotal(Price(product_id), quantity)]

SaleMovement(product_id, quantity, stock_before, order_number) ==
    [product_id |-> product_id, movement_type |-> "SALIDA", quantity |-> quantity,
     stock_before |-> stock_before,
     stock_after |-> SaleStockAfter(stock_before, quantity),
     reason |-> "Venta", order_number |-> order_number]

\* mutation of FetchLine: a missing product on any remaining line is reported
\* before the stock of the current line is looked at
FetchLineMissingFirst(r) ==
    LET item == r.req.items[r.i]
        p == item.product_id
    IN  IF \E k \in r.i..Len(r.req.items) : r.req.items[k].product_id \notin Products
        THEN [r EXCEPT !.pc = "http404"]
        ELSE IF InsufficientStock(ProductGet(r, p), item.quantity)
        THEN [r EXCEPT !.pc = "http400"]
        ELSE [Loaded(r, p) EXCEPT
                 !.db_items = Append(@, OrderItem(p, item.quantity)),
                 !.subtotal = @ + ItemSubtotal(Price(p), item.quantity),
                 !.pc = "co_update"]

\* the loop body up to the UPDATE, for line r.i: fetch the product, the
\* existence and stock checks, the line item
FetchLine(r) ==
    LET item == r.req.items[r.i]
        p == item.product_id
    IN  IF p \notin Products THEN [r EXCEPT !.pc = "http404"]
        ELSE IF InsufficientStock(ProductGet(r, p), item.quantity)
        THEN [r EXCEPT !.pc = "http400"]
        ELSE [Loaded(r, p) EXCEPT
                 !.db_items = Append(@, OrderItem(p, item.quantity)),
                 !.subtotal = @ + ItemSubtotal(Price(p), item.quantity),
                 !.pc = "co_update"]

\* the rest of the loop body, for line r.i: the UPDATE of the product's stock
\* and db.add(stock_movement)
WriteLine(r) ==
    LET item == r.req.items[r.i]
        p == item.product_id
        stock_before == r.cache[p]
        stock_after == SaleStockAfter(stock_before, item.quantity)
    IN  [ProductUpdate(r, p, stock_after) EXCEPT
            !.added = Append(@, SaleMovement(p, item.quantity, stock_before,
                                             OrderNumber(r.ts, r.req.user_id))),
            !.i = @ + 1]

NewOrder(r) ==
    [order_number |-> OrderNumber(r.ts, r.req.user_id),
     user_id |-> r.req.user_id, status |-> "PENDING",
     items |-> r.db_items, subtotal |-> r.subtotal,
     tax |-> 0, shipping_cost |-> 0, total |-> r.subtotal + 0 + 0]

\* db.add(order); db.commit(): the flush fails on a duplicate order_number
\* (UNIQUE), which the endpoint reports as 500
CommitOrder(s, r) ==
    IF \E o \in DOMAIN orders : orders[o].order_number = NewOrder(r).order_number
    THEN Rollback(s, r, 500)
    ELSE /\ stock' = CommittedStock(r)
         /\ movements' = movements \o r.added
         /\ orders' = Append(orders, NewOrder(r))
         /\ created' = Append(created, [stock |-> stock,
                                        last |-> Len(movements) + Len(r.added)])
         /\ sess' = [sess EXCEPT ![s] = IdleSession]
         /\ last' = Response([r EXCEPT !.order =
                                 [id |-> Len(orders) + 1, status |-> "PENDING",
                                  items |-> r.db_items,
                                  order_number |-> NewOrder(r).order_number]], 201)

\* where the handler goes after the fetch of a line
AfterFetch(s, r) ==
    IF r.pc = "http404" THEN Rollback(s, r, 404)
    ELSE IF r.pc = "http400" THEN Rollback(s, r, 400)
    ELSE Continue(s, r)

\* POST /orders arrives at second ts of the wall clock, which never runs back
CreateOrder(s, user_id, items, ts) ==
    /\ Accepts(s)
    /\ requests' = requests + 1
    /\ ts >= now
    /\ now' = ts
    /\ LET r == [IdleSession EXCEPT !.req = [NoReq EXCEPT !.op = "create_order",
                                                !.user_id = user_id, !.items = items],
                                    !.ts = ts, !.i = 1]
       IN  IF items = <<>> THEN CommitOrder(s, r) ELSE AfterFetch(s, FetchLine(r))
    /\ UNCHANGED aside

\* the UPDATE the handler was about to make, then the next line or the commit
CreateOrderUpdate(s) ==
    /\ sess[s].pc = "co_update"
    /\ CanUpdate(s, sess[s].req.items[sess[s].i].product_id)
    /\ LET r == WriteLine(sess[s])
       IN  IF r.i > Len(r.req.items) THEN CommitOrder(s, r)
           ELSE AfterFetch(s, FetchLine(r))
    /\ UNCHANGED <<now, requests>>
    /\ UNCHANGED aside

\* ----------------------------------------------------------- update_status
\* mutation of ReturnsStock: any cancellation returns the stock
ReturnsStockAlways(new_status, current_status) == new_status = "CANCELLED"

\* "Si se cancela y NO esta DELIVERED, devolver el stock"
ReturnsStock(new_status, current_status) ==
    new_status = "CANCELLED" /\ current_status # "DELIVERED"

\* mutation of ReturnStockAfter: the quantity is taken instead of given back
ReturnStockAfterTaken(stock_actual, quantity) == stock_actual - quantity

ReturnStockAfter(stock_actual, quantity) == stock_actual + quantity

ReturnMovement(product_id, quantity, stock_actual, order_number) ==
    [product_id |-> product_id, movement_type |-> "ENTRADA", quantity |-> quantity,
     stock_before |-> stock_actual,
     stock_after |-> ReturnStockAfter(stock_actual, quantity),
     reason |-> "Cancelacion", order_number |-> order_number]

\* order = get_by_id(order_id), with the line items order.order_items yields
OrderGet(r, id) ==
    [r EXCEPT !.order = [id |-> id, status |-> orders[id].status,
                         items |-> orders[id].items,
                         order_number |-> orders[id].order_number],
              !.i = 1]

\* the cancellation loop body up to the UPDATE, for item r.i: fetch the
\* product and, when it exists, db.add(stock_movement)
FetchItem(r) ==
    LET item == r.order.items[r.i]
        p == item.product_id
    IN  IF p \in Products
        THEN [Loaded(r, p) EXCEPT
                 !.added = Append(@, ReturnMovement(p, item.quantity, ProductGet(r, p),
                                                    r.order.order_number)),
                 !.pc = "us_update"]
        ELSE [r EXCEPT !.i = @ + 1, !.pc = "us_fetch"]

\* mutation of WriteItem: the movement is kept but the UPDATE is not made
WriteItemNoUpdate(r) == [r EXCEPT !.i = @ + 1]

\* the UPDATE of the cancellation loop body, for item r.i
WriteItem(r) ==
    LET item == r.order.items[r.i]
        p == item.product_id
    IN  [ProductUpdate(r, p, ReturnStockAfter(r.cache[p], item.quantity)) EXCEPT
            !.i = @ + 1]

\* mutation of CommitStatus: the line items are dropped with the status change
CommitStatusDropsItems(s, r) ==
    /\ stock' = CommittedStock(r)
    /\ movements' = movements \o r.added
    /\ orders' = [orders EXCEPT ![r.order.id].status = r.req.new_status,
                                ![r.order.id].items = <<>>]
    /\ sess' = [sess EXCEPT ![s] = IdleSession]
    /\ last' = Response(r, 200)
    /\ UNCHANGED created

\* mutation of CommitStatus: the new movements are put before the old ones
CommitStatusPrepends(s, r) ==
    /\ stock' = CommittedStock(r)
    /\ movements' = r.added \o movements
    /\ orders' = [orders EXCEPT ![r.order.id].status = r.req.new_status]
    /\ sess' = [sess EXCEPT ![s] = IdleSession]
    /\ last' = Response(r, 200)
    /\ UNCHANGED created

\* order.status = new_status; db.commit()
CommitStatus(s, r) ==
    /\ stock' = CommittedStock(r)
    /\ movements' = movements \o r.added
    /\ orders' = [orders EXCEPT ![r.order.id].status = r.req.new_status]
    /\ sess' = [sess EXCEPT ![s] = IdleSession]
    /\ last' = Response(r, 200)
    /\ UNCHANGED created

\* PATCH /orders/{order_id}/status
UpdateStatus(s, order_id, new_status) ==
    /\ Accepts(s)
    /\ LET r == [IdleSession EXCEPT !.req = [NoReq EXCEPT !.op = "update_status",
                                                !.order_id = order_id,
                                                !.new_status = new_status]]
       IN  IF order_id \notin DOMAIN orders THEN Rollback(s, r, 404)
           ELSE IF new_status # "CANCELLED" THEN CommitStatus(s, OrderGet(r, order_id))
           ELSE IF ~ReturnsStock(new_status, orders[order_id].status)
           THEN Continue(s, [OrderGet(r, order_id) EXCEPT !.pc = "us_commit"])
           ELSE Continue(s, [OrderGet(r, order_id) EXCEPT !.pc = "us_fetch"])
    /\ requests' = requests + 1
    /\ UNCHANGED now
    /\ UNCHANGED aside

\* the first product of a cancellation is fetched (or there is none)
UpdateStatusFetch(s) ==
    /\ sess[s].pc = "us_fetch"
    /\ IF sess[s].i > Len(sess[s].order.items) THEN CommitStatus(s, sess[s])
       ELSE Continue(s, FetchItem(sess[s]))
    /\ UNCHANGED <<now, requests>>
    /\ UNCHANGED aside

\* the UPDATE the handler was about to make, then the next item or the commit
UpdateStatusUpdate(s) ==
    /\ sess[s].pc = "us_update"
    /\ CanUpdate(s, sess[s].order.items[sess[s].i].product_id)
    /\ LET r == WriteItem(sess[s])
       IN  IF r.i > Len(r.order.items) THEN CommitStatus(s, r)
           ELSE Continue(s, FetchItem(r))
    /\ UNCHANGED <<now, requests>>
    /\ UNCHANGED aside

\* a cancellation that found the order DELIVERED commits the status alone
UpdateStatusCommit(s) ==
    /\ sess[s].pc = "us_commit"
    /\ CommitStatus(s, sess[s])
    /\ UNCHANGED <<now, requests>>
    /\ UNCHANGED aside

\* ------------------------------------------------------- register_movement
\* mutation of MovementStockAfter: an AJUSTE sets the stock to the quantity
MovementStockAfterAjusteSets(movement_type, current_stock, quantity) ==
    IF movement_type = "ENTRADA" THEN current_stock + quantity
    ELSE IF movement_type = "SALIDA" THEN current_stock - quantity
    ELSE quantity

\* StockRepository.create_movement: the new stock by movement type
MovementStockAfter(movement_type, current_stock, quantity) ==
    IF movement_type = "ENTRADA" THEN current_stock + quantity
    ELSE IF movement_type = "SALIDA" THEN current_stock - quantity
    ELSE current_stock + quantity

ManualMovement(product_id, movement_type, quantity, current_stock) ==
    [product_id |-> product_id, movement_type |-> movement_type,
     quantity |-> quantity, stock_before |-> current_stock,
     stock_after |-> MovementStockAfter(movement_type, current_stock, quantity),
     reason |-> "manual", order_number |-> <<0, 0>>]

\* mutation of SalidaRejected: the comparison is off by one
SalidaRejectedOffByOne(movement_type, stock_actual, quantity) ==
    movement_type = "SALIDA" /\ stock_actual + 1 < quantity

\* mutation of SalidaRejected: a SALIDA is registered without the stock check
SalidaUnchecked(movement_type, stock_actual, quantity) == FALSE

\* "Verificar stock suficiente si es una salida"
SalidaRejected(movement_type, stock_actual, quantity) ==
    movement_type = "SALIDA" /\ stock_actual < quantity

\* POST /stock: StockService.register_movement up to the call of create_movement
RegisterMovement(s, product_id, movement_type, quantity) ==
    /\ Accepts(s)
    /\ requests' = requests + 1
    /\ LET r == [IdleSession EXCEPT !.req = [NoReq EXCEPT !.op = "register_movement",
                                                !.product_id = product_id,
                                                !.movement_type = movement_type,
                                                !.quantity = quantity]]
       IN  IF product_id \notin Products THEN Rollback(s, r, 404)
           ELSE IF SalidaRejected(movement_type, ProductGet(r, product_id), quantity)
           THEN Rollback(s, r, 400)
           ELSE Continue(s, [Loaded(r, product_id) EXCEPT !.pc = "rm_create"])
    /\ UNCHANGED now
    /\ UNCHANGED aside

\* StockRepository.create_movement(movement_in, current_stock): add, UPDATE, commit
CreateMovement(s) ==
    /\ sess[s].pc = "rm_create"
    /\ LET r == sess[s]
           p == r.req.product_id
           m == ManualMovement(p, r.req.movement_type, r.req.quantity, r.cache[p])
       IN  /\ CanUpdate(s, p)
           /\ stock' = [stock EXCEPT ![p] = m.stock_after]
           /\ movements' = Append(movements, m)
           /\ last' = Response(r, 201)
    /\ sess' = [sess EXCEPT ![s] = IdleSession]
    /\ UNCHANGED <<orders, now, created, requests>>
    /\ UNCHANGED aside

\* ------------------------------------------------------------- row locks
\* the product whose row lock s is waiting for, when it waits
Waiting(s) ==
    IF sess[s].pc = "co_update" THEN {sess[s].req.items[sess[s].i].product_id}
    ELSE IF sess[s].pc = "us_update" THEN {sess[s].order.items[sess[s].i].product_id}
    ELSE IF sess[s].pc = "rm_create" THEN {sess[s].req.product_id}
    ELSE {}

WaitsFor(s, t) == s # t /\ Waiting(s) \cap sess[t].wrote # {}

\* PostgreSQL breaks a lock cycle by failing one of the waiting statements;
\* the endpoint's `except Exception` answers 500 and get_db rolls back
DeadlockAbort(s) ==
    /\ \E t \in Sessions : WaitsFor(s, t) /\ WaitsFor(t, s)
    /\ Rollback(s, sess[s], 500)
    /\ UNCHANGED <<now, requests>>
    /\ UNCHANGED aside

\* the response has been delivered to the client
Ack ==
    /\ last \notin {NoLast, Unobserved}
    /\ last' = NoLast
    /\ UNCHANGED <<stock, movements, orders, now, sess, created, requests>>
    /\ UNCHANGED aside

\* ---------------------------------------------------------- get_my_orders
\* mutation of get_by_user: the WHERE clause is left out
get_by_user_unfiltered(user_id) ==
    [k \in 1..Len(orders) |->
        [id |-> Len(orders) + 1 - k, order |-> orders[Len(orders) + 1 - k]]]

\* select(Order).where(Order.user_id == user_id).order_by(created_at.desc()):
\* the rows of the user, the latest first
get_by_user(user_id) ==
    LET mine == SelectSeq([i \in 1..Len(orders) |-> i],
                          LAMBDA i : orders[i].user_id = user_id)
    IN  [k \in 1..Len(mine) |->
            [id |-> mine[Len(mine) + 1 - k], order |-> orders[mine[Len(mine) + 1 - k]]]]

\* GET /orders of the authenticated user user_id, between two other requests
GetMyOrders(s, user_id) ==
    /\ sess[s].pc = "idle"
    /\ last = NoLast
    /\ last' = [req |-> [NoReq EXCEPT !.op = "get_my_orders", !.user_id = user_id],
                res |-> 200, order |-> NoOrder, pre |-> Snapshot,
                listed |-> get_by_user(user_id)]
    /\ UNCHANGED <<stock, movements, orders, now, sess, created, requests>>
    /\ UNCHANGED aside

\* ------------------------------------------------------ get_product_by_id
\* mutation of ViewsAfter: the counter is written from the value the SELECT
\* of the product returned
ViewsAfterSeen(current, seen) == seen + 1

\* UPDATE products SET views_count = views_count + 1 WHERE id = :id
ViewsAfter(current, seen) == current + 1

\* GET /products/{id}: repo.get_by_id(id); a missing product is answered 404
GetProductById(s, id) ==
    /\ visit[s].pc = "idle"
    /\ visits[1] + visits[2] + visits[MissingProduct] < MaxViews
    /\ visits' = [visits EXCEPT ![id] = @ + 1]
    /\ visit' = [visit EXCEPT ![s] =
                    IF id \in Products
                    THEN [pc |-> "increment", id |-> id, seen |-> views_count[id]]
                    ELSE NoVisit]
    /\ UNCHANGED <<views_count, users, signup>>
    /\ UNCHANGED shop

\* repo.increment_views(id): the UPDATE and its commit
IncrementViews(s) ==
    /\ visit[s].pc = "increment"
    /\ views_count' = [views_count EXCEPT ![visit[s].id] =
                          ViewsAfter(@, visit[s].seen)]
    /\ visit' = [visit EXCEPT ![s] = NoVisit]
    /\ UNCHANGED <<visits, users, signup>>
    /\ UNCHANGED shop

\* ------------------------------------------------------------ create_user
\* mutation of user_in_db: role and is_active are taken from the request
user_in_db_as_requested(user_data) ==
    [email |-> user_data.email, username |-> user_data.username,
     role |-> user_data.role, is_active |-> user_data.is_active]

\* the dictionary create_user hands to the repository
user_in_db(user_data) ==
    [email |-> user_data.email, username |-> user_data.username,
     role |-> "CUSTOMER", is_active |-> TRUE]

get_by_email(email) == {k \in DOMAIN users : users[k].email = email}

get_by_username(username) == {k \in DOMAIN users : users[k].username = username}

\* the request of session s is answered with status code
Answer(s, code) == [signup EXCEPT ![s].pc = "idle", ![s].res = code]

\* POST /users: UserService.create_user up to the check of the email; the
\* endpoint answers a ValueError with 400
CreateUser(s, user_in) ==
    /\ signup[s].pc = "idle"
    /\ LET started == [signup EXCEPT ![s] = [pc |-> "username", user_in |-> user_in,
                                             res |-> 0]]
       IN  signup' = IF get_by_email(user_in.email) # {}
                     THEN [started EXCEPT ![s].pc = "idle", ![s].res = 400]
                     ELSE started
    /\ UNCHANGED <<views_count, visit, visits, users>>
    /\ UNCHANGED shop

\* the check of the username
CreateUserUsername(s) ==
    /\ signup[s].pc = "username"
    /\ signup' = IF get_by_username(signup[s].user_in.username) # {}
                 THEN Answer(s, 400)
                 ELSE [signup EXCEPT ![s].pc = "create"]
    /\ UNCHANGED <<views_count, visit, visits, users>>
    /\ UNCHANGED shop

\* user_repository.create(user_in_db): db.add and commit; the INSERT fails on
\* a duplicate email or username (UNIQUE), which is no ValueError: 500
CreateUserRow(s) ==
    /\ signup[s].pc = "create"
    /\ LET db_obj == user_in_db(signup[s].user_in)
       IN  IF get_by_email(db_obj.email) # {} \/ get_by_username(db_obj.username) # {}
           THEN users' = users /\ signup' = Answer(s, 500)
           ELSE users' = Append(users, db_obj) /\ signup' = Answer(s, 201)
    /\ UNCHANGED <<views_count, visit, visits>>
    /\ UNCHANGED shop

\* ----------------------------------------------------------- specification
Handlers(S) ==
    \/ \E s \in S, u \in Users, items \in ItemLists, ts \in 0..MaxTime :
           CreateOrder(s, u, items, ts)
    \/ \E s \in S : CreateOrderUpdate(s)
    \/ \E s \in S, id \in 1..MaxRequests, st \in OrderStatus :
           UpdateStatus(s, id, st)
    \/ \E s \in S : UpdateStatusFetch(s)
    \/ \E s \in S : UpdateStatusUpdate(s)
    \/ \E s \in S : UpdateStatusCommit(s)
    \/ \E s \in S, p \in ProductIds, mt \in StockMovementType, q \in 1..MaxQty :
           RegisterMovement(s, p, mt, q)
    \/ \E s \in S : CreateMovement(s)

\* requests served concurrently
Next == Handlers(Sessions) \/ \E s \in Sessions : DeadlockAbort(s)

Spec == Init /\ [][Next]_vars

\* requests served one after the other
SeqNext ==
    \/ Handlers(OneSession)
    \/ \E u \in Users : GetMyOrders(1, u)
    \/ Ack

SeqSpec == SeqInit /\ [][SeqNext]_vars

\* product pages requested concurrently
ViewNext ==
    \/ \E s \in Sessions, id \in ProductIds : GetProductById(s, id)
    \/ \E s \in Sessions : IncrementViews(s)

ViewSpec == Init /\ [][ViewNext]_vars

\* users registering concurrently
UserNext ==
    \/ \E s \in Sessions, user_in \in UserCreate : CreateUser(s, user_in)
    \/ \E s \in Sessions : CreateUserUsername(s)
    \/ \E s \in Sessions : CreateUserRow(s)

UserSpec == Init /\ [][UserNext]_vars

\* ------------------------------------------------- properties: create_order
\* the response just sent answers a create_order request
CreateOrderEnded == last.req.op = "create_order" /\ last.res # 0

\* the quantity the first n lines of a request order of product p
RECURSIVE OrderedQty(_, _, _)
OrderedQty(items, n, p) ==
    IF n = 0 THEN 0
    ELSE OrderedQty(items, n - 1, p)
         + (IF items[n].product_id = p THEN items[n].quantity ELSE 0)

\* nothing of the database differs from what it was before the call
DatabaseUntouched ==
    /\ stock = last.pre.stock
    /\ movements = last.pre.movements
    /\ orders = last.pre.orders

\* line k names a product that does not exist
LineMissing(items, k) == items[k].product_id \notin Products

\* line k asks for more than the stock the product had when the call began
LineOverStock(items, k) ==
    /\ ~LineMissing(items, k)
    /\ items[k].quantity > last.pre.stock[items[k].product_id]

\* line k asks for more than what the earlier lines of the request leave
LineShort(items, k) ==
    /\ ~LineMissing(items, k)
    /\ items[k].quantity > last.pre.stock[items[k].product_id]
                           - OrderedQty(items, k - 1, items[k].product_id)

\* the first line, in request order, that fails either check (0: none does)
FirstOffending(items) ==
    LET bad == {k \in DOMAIN items : LineMissing(items, k) \/ LineShort(items, k)}
    IN  IF bad = {} THEN 0 ELSE CHOOSE k \in bad : \A j \in bad : k <= j

C2_OverStockIs400 ==
    (CreateOrderEnded /\ \E k \in DOMAIN last.req.items : LineOverStock(last.req.items, k))
        => (last.res = 400 /\ DatabaseUntouched)

\* C2 amended: such a call fails and leaves stock, ledger and orders as they
\* were before the call; it fails with HTTP 400 unless the first line that
\* fails a check names a product that does not exist, and then with HTTP 404.
C2_OverStockFailsClean ==
    (CreateOrderEnded /\ \E k \in DOMAIN last.req.items : LineOverStock(last.req.items, k))
        => /\ DatabaseUntouched
           /\ last.res = IF LineMissing(last.req.items, FirstOffending(last.req.items))
                         THEN 404 ELSE 400

\* C2 witness: the second line asked for too much, after the first line had
\* been read, decremented and written to the session
C2_Witness ==
    /\ CreateOrderEnded /\ last.res = 400
    /\ Len(last.req.items) = 2
    /\ LineOverStock(last.req.items, 2)
    /\ FirstOffending(last.req.items) = 2

\* C3 as stated: a create_order with a line naming a product that does not
\* exist fails with HTTP 404 and leaves stock, ledger and orders as they were
\* before the call.
C3_MissingProductIs404 ==
    (CreateOrderEnded /\ \E k \in DOMAIN last.req.items : LineMissing(last.req.items, k))
        => (last.res = 404 /\ DatabaseUntouched)

\* C3 amended: such a call fails and leaves stock, ledger and orders as they
\* were before the call; it fails with HTTP 404 unless the first line that
\* fails a check asks for more than the stock left, and then with HTTP 400.
C3_MissingProductFailsClean ==
    (CreateOrderEnded /\ \E k \in DOMAIN last.req.items : LineMissing(last.req.items, k))
        => /\ DatabaseUntouched
           /\ last.res = IF LineShort(last.req.items, FirstOffending(last.req.items))
                         THEN 400 ELSE 404

\* C3 witness: the second line named a missing product, after the first line
\* had been read, decremented and written to the session
C3_Witness ==
    /\ CreateOrderEnded /\ last.res = 404
    /\ Len(last.req.items) = 2
    /\ LineMissing(last.req.items, 2)
    /\ FirstOffending(last.req.items) = 2

\* C4: two create_order calls on the same product serialize their decrements:
\* when the ledger holds exactly their two sale movements, the product's stock
\* is initial - q1 - q2 and the later movement starts from the stock the
\* earlier one left.
C4_DecrementsSerialize ==
    (/\ Len(movements) = 2
     /\ \A k \in 1..2 : movements[k].reason = "Venta"
     /\ movements[1].product_id = movements[2].product_id
     /\ movements[1].order_number # movements[2].order_number)
        => /\ stock[movements[1].product_id]
                  = InitStock - movements[1].quantity - movements[2].quantity
           /\ movements[2].stock_before = movements[1].stock_after

\* ------------------------------------------------ properties: update_status
\* the response just sent answers a cancellation that went through
CancelEnded ==
    /\ last.req.op = "update_status"
    /\ last.req.new_status = "CANCELLED"
    /\ last.res = 200

\* the products of the cancelled order's items
Involved == {last.order.items[k].product_id : k \in DOMAIN last.order.items}

\* no movement touched the cancelled order's products between the order's
\* creation and the cancellation
UntouchedSinceCreated ==
    \A j \in (created[last.order.id].last + 1)..Len(last.pre.movements) :
        last.pre.movements[j].product_id \notin Involved

\* C5: cancelling an order that is PENDING, CONFIRMED or SHIPPED appends one
\* ENTRADA movement per line item (the item's quantity, stock_before = the
\* current stock, stock_after = stock_before + quantity) and, when no other
\* movement touched those products since the order was created, leaves each
\* of them with the stock it had before the order was created.
C5_CancelReturnsStock ==
    (CancelEnded /\ last.order.status \in {"PENDING", "CONFIRMED", "SHIPPED"}) =>
        LET items == last.order.items
            n0 == Len(last.pre.movements)
        IN  /\ Len(movements) = n0 + Len(items)
            /\ SubSeq(movements, 1, n0) = last.pre.movements
            /\ \A k \in DOMAIN items :
                   LET m == movements[n0 + k]
                       p == items[k].product_id
                   IN  /\ m.product_id = p
                       /\ m.movement_type = "ENTRADA"
                       /\ m.quantity = items[k].quantity
                       /\ m.stock_before = last.pre.stock[p] + OrderedQty(items, k - 1, p)
                       /\ m.stock_after = m.stock_before + m.quantity
            /\ UntouchedSinceCreated =>
                   \A p \in Involved : stock[p] = created[last.order.id].stock[p]

\* C5 witness: a CONFIRMED order of two items was cancelled, nothing else
\* having touched its products
C5_Witness ==
    /\ CancelEnded
    /\ last.order.status = "CONFIRMED"
    /\ Len(last.order.items) = 2
    /\ UntouchedSinceCreated

\* C6: cancelling an order that is DELIVERED changes no product's stock and
\* appends no movement.
C6_CancelDeliveredKeepsStock ==
    (CancelEnded /\ last.order.status = "DELIVERED") =>
        (stock = last.pre.stock /\ movements = last.pre.movements)

\* C6 witness: a DELIVERED order with an item was cancelled
C6_Witness ==
    /\ CancelEnded
    /\ last.order.status = "DELIVERED"
    /\ Len(last.order.items) >= 1
    /\ orders[last.order.id].status = "CANCELLED"

PermittedTransitions ==
    {<<"PENDING", "CONFIRMED">>, <<"PENDING", "CANCELLED">>,
     <<"CONFIRMED", "SHIPPED">>, <<"SHIPPED", "DELIVERED">>}

\* C7: an order is created PENDING and every change of an order's status is
\* one of the permitted transitions PENDING->CONFIRMED, PENDING->CANCELLED,
\* CONFIRMED->SHIPPED, SHIPPED->DELIVERED.
C7_OnlyPermittedTransitions ==
    [][\A o \in DOMAIN orders' :
           IF o \in DOMAIN orders
           THEN \/ orders'[o].status = orders[o].status
                \/ <<orders[o].status, orders'[o].status>> \in PermittedTransitions
           ELSE orders'[o].status = "PENDING"]_vars

\* C8: once an order's status is DELIVERED or CANCELLED, no step changes it.
C8_TerminalStatuses ==
    [][\A o \in DOMAIN orders :
           orders[o].status \in {"DELIVERED", "CANCELLED"}
               => orders'[o].status = orders[o].status]_vars

\* --------------------------------------------------- properties: the ledger
\* the movements of product p, oldest first
ProductMovements(p) == SelectSeq(movements, LAMBDA m : m.product_id = p)

\* C9: for every product the movements form a chain: each stock_before is the
\* stock_after of the product's previous movement (the initial stock for the
\* first one) and the product's stock is the stock_after of its latest one.
C9_LedgerChain ==
    \A p \in Products :
        LET L == ProductMovements(p)
        IN  /\ \A i \in DOMAIN L :
                   L[i].stock_before = IF i = 1 THEN InitStock ELSE L[i - 1].stock_after
            /\ stock[p] = IF L = <<>> THEN InitStock ELSE L[Len(L)].stock_after

\* C9 witness: a product has a movement of each of the three services
C9_Witness ==
    \E p \in Products :
        {"Venta", "Cancelacion", "manual"}
            \subseteq {ProductMovements(p)[i].reason : i \in DOMAIN ProductMovements(p)}

\* C10: no product's stock is negative and every SALIDA movement has a
\* quantity of at most its own stock_before.
C10_StockNeverNegative ==
    /\ \A p \in Products : stock[p] >= 0
    /\ \A k \in DOMAIN movements :
           movements[k].movement_type = "SALIDA"
               => movements[k].quantity <= movements[k].stock_before

\* C10 witness: two overlapping requests each took the last unit of a product
C10_Witness ==
    \E i, j \in DOMAIN movements :
        /\ i < j
        /\ movements[i].movement_type = "SALIDA" /\ movements[j].movement_type = "SALIDA"
        /\ movements[i].product_id = movements[j].product_id
        /\ movements[i].stock_before = movements[i].quantity
        /\ movements[j].stock_before = movements[i].stock_before
        /\ stock[movements[i].product_id] = 0

\* ------------------------------------------------ properties: transactions
\* the movements a step appends to the ledger
Appended == SubSeq(movements', Len(movements) + 1, Len(movements'))

\* C11: a commit that writes a product's stock appends a movement for the
\* write, whose stock_after is the value written, and a commit appends no
\* movement without the stock write: in every step, a product with appended
\* movements ends at the stock_after of the last of them, and a product
\* without any keeps its stock.
C11_StockWritesPaired ==
    [][\A p \in Products :
           LET A == SelectSeq(Appended, LAMBDA m : m.product_id = p)
           IN  IF A = <<>> THEN stock'[p] = stock[p]
               ELSE stock'[p] = A[Len(A)].stock_after]_vars

\* C11 witness: commits of all three services have written stock
C11_Witness ==
    /\ {"Venta", "Cancelacion", "manual"} \subseteq {movements[k].reason : k \in DOMAIN movements}
    /\ \E p \in Products : stock[p] # InitStock

\* ------------------------------------------------------ properties: orders
\* the sum of the subtotals of the first n line items
RECURSIVE SumSubtotals(_, _)
SumSubtotals(items, n) ==
    IF n = 0 THEN 0 ELSE SumSubtotals(items, n - 1) + items[n].subtotal

\* C12: in every persisted order each line item's unit_price is the product's
\* price and its subtotal is quantity x unit_price; the order's subtotal is
\* the sum of the line-item subtotals, tax and shipping_cost are 0, and
\* total = subtotal + tax + shipping_cost.
C12_OrderAmounts ==
    \A o \in DOMAIN orders :
        LET items == orders[o].items
        IN  /\ \A k \in DOMAIN items :
                   /\ items[k].unit_price = Price(items[k].product_id)
                   /\ items[k].subtotal = items[k].quantity * items[k].unit_price
            /\ orders[o].subtotal = SumSubtotals(items, Len(items))
            /\ orders[o].tax = 0
            /\ orders[o].shipping_cost = 0
            /\ orders[o].total = orders[o].subtotal + orders[o].tax + orders[o].shipping_cost

\* C12 witness: an order of two products, two units of one of them
C12_Witness ==
    \E o \in DOMAIN orders :
        /\ Len(orders[o].items) = 2
        /\ orders[o].items[1].product_id # orders[o].items[2].product_id
        /\ \E k \in 1..2 : orders[o].items[k].quantity = 2

\* C13: create_order and update_status take effect as one transaction. A step
\* that leaves its request unfinished changes nothing that is committed; the
\* step that persists an order persists with it exactly the sale movements of
\* its line items; and the step that appends the cancellation movements of an
\* order appends one per line item and sets the order CANCELLED.
C13_AtomicTransactions ==
    [][/\ (\E s \in Sessions : sess'[s] # sess[s] /\ sess'[s].pc # "idle")
              => UNCHANGED <<stock, movements, orders>>
       /\ Len(orders') # Len(orders) =>
              /\ Len(orders') = Len(orders) + 1
              /\ LET o == orders'[Len(orders')]
                 IN  /\ Len(Appended) = Len(o.items)
                     /\ \A k \in DOMAIN o.items :
                            /\ Appended[k].reason = "Venta"
                            /\ Appended[k].order_number = o.order_number
                            /\ Appended[k].product_id = o.items[k].product_id
                            /\ Appended[k].quantity = o.items[k].quantity
       /\ \A k \in DOMAIN Appended :
              /\ Appended[k].reason = "Venta" => Len(orders') = Len(orders) + 1
              /\ Appended[k].reason = "Cancelacion" =>
                     \E o \in DOMAIN orders :
                         /\ orders[o].order_number = Appended[k].order_number
                         /\ orders'[o].status = "CANCELLED"
                         /\ Len(Appended) = Len(orders[o].items)]_vars

\* C13 witness: a request in progress has updated a stock and added a
\* movement that the committed database does not show
C13_Witness ==
    \E s \in Sessions :
        /\ sess[s].pc # "idle"
        /\ sess[s].added # <<>>
        /\ \E p \in sess[s].wrote : sess[s].writes[p] # stock[p]
        /\ \E t \in Sessions \ {s} : sess[t].pc # "idle"

\* ------------------------------------------- properties: failures, responses
\* C14: a create_order or update_status call that fails otherwise than with
\* NotFound or InsufficientStock is answered HTTP 500 and leaves stock,
\* ledger, orders and order statuses as they were before the call.
C14_OtherFailuresRollBack ==
    (/\ last.req.op \in {"create_order", "update_status"}
     /\ last.res \notin {0, 200, 201, 400, 404})
        => (last.res = 500 /\ DatabaseUntouched)

\* C14 witness: the commit of an order of two lines failed on the UNIQUE
\* constraint of order_number, after both lines had been decremented
C14_Witness ==
    /\ CreateOrderEnded /\ last.res = 500
    /\ Len(last.req.items) = 2
    /\ FirstOffending(last.req.items) = 0

\* C15: every create_order call that passes the product and stock checks
\* succeeds, and no two orders share an order number.
C15_ValidOrdersSucceed ==
    /\ (CreateOrderEnded /\ FirstOffending(last.req.items) = 0) => last.res = 201
    /\ \A o1, o2 \in DOMAIN orders :
           o1 # o2 => orders[o1].order_number # orders[o2].order_number

\* ---------------------------------------- properties: register_movement
\* the response just sent answers a register_movement request
RegisterEnded == last.req.op = "register_movement" /\ last.res # 0

\* C16: register_movement of a SALIDA for more than the product's stock fails
\* with HTTP 400 and leaves the product's stock and the ledger unchanged.
C16_SalidaOverStockRejected ==
    (/\ RegisterEnded
     /\ last.req.movement_type = "SALIDA"
     /\ last.req.product_id \in Products
     /\ last.req.quantity > last.pre.stock[last.req.product_id])
        => /\ last.res = 400
           /\ stock = last.pre.stock
           /\ movements = last.pre.movements

\* C16 witness: a SALIDA of two units was refused on a product with one
C16_Witness ==
    /\ RegisterEnded /\ last.res = 400
    /\ last.req.movement_type = "SALIDA"
    /\ last.req.quantity = last.pre.stock[last.req.product_id] + 1
    /\ last.pre.stock[last.req.product_id] > 0

\* C17: register_movement(product, type, q) on an existing product with stock
\* s (q <= s for a SALIDA) appends exactly one movement with stock_before = s
\* and stock_after = s + q for ENTRADA and AJUSTE, s - q for SALIDA, and sets
\* the product's stock to that stock_after; on a product that does not exist
\* it fails with HTTP 404 and changes nothing.
C17_RegisterMovementEffect ==
    RegisterEnded =>
        LET p == last.req.product_id
            q == last.req.quantity
            type == last.req.movement_type
        IN  IF p \notin Products THEN last.res = 404 /\ DatabaseUntouched
            ELSE (type = "SALIDA" => q <= last.pre.stock[p]) =>
                 LET s == last.pre.stock[p]
                     after == IF type = "SALIDA" THEN s - q ELSE s + q
                 IN  /\ last.res = 201
                     /\ Len(movements) = Len(last.pre.movements) + 1
                     /\ SubSeq(movements, 1, Len(last.pre.movements)) = last.pre.movements
                     /\ movements[Len(movements)].product_id = p
                     /\ movements[Len(movements)].movement_type = type
                     /\ movements[Len(movements)].quantity = q
                     /\ movements[Len(movements)].stock_before = s
                     /\ movements[Len(movements)].stock_after = after
                     /\ stock = [last.pre.stock EXCEPT ![p] = after]
                     /\ orders = last.pre.orders

\* C17 witness: an AJUSTE of two units was registered on a product with stock
C17_Witness ==
    /\ RegisterEnded /\ last.res = 201
    /\ last.req.movement_type = "AJUSTE"
    /\ last.req.quantity = 2
    /\ last.pre.stock[last.req.product_id] > 0

\* C18: update_status on an order id that does not exist fails with HTTP 404
\* and changes no order, no stock and no ledger entry, whatever the status
\* requested.
C18_UnknownOrderIs404 ==
    (/\ last.req.op = "update_status"
     /\ last.res # 0
     /\ last.req.order_id \notin DOMAIN last.pre.orders)
        => (last.res = 404 /\ DatabaseUntouched)

\* C18 witness: the cancellation of an unknown order was refused while
\* another order existed
C18_Witness ==
    /\ last.req.op = "update_status" /\ last.res = 404
    /\ last.req.new_status = "CANCELLED"
    /\ last.req.order_id \notin DOMAIN orders
    /\ \E o \in DOMAIN orders : Len(orders[o].items) >= 1

\* ------------------------------------------------ properties: frame effects
\* C19: once an order is persisted, its line items (product, quantity,
\* unit_price, subtotal) and its subtotal, tax, shipping_cost and total never
\* change: no step changes anything of an order but its status.
C19_OrderContentImmutable ==
    [][\A o \in DOMAIN orders :
           /\ o \in DOMAIN orders'
           /\ orders'[o].items = orders[o].items
           /\ orders'[o].subtotal = orders[o].subtotal
           /\ orders'[o].tax = orders[o].tax
           /\ orders'[o].shipping_cost = orders[o].shipping_cost
           /\ orders'[o].total = orders[o].total]_vars

\* C19 witness: an order with line items has been cancelled after a later
\* order was created
C19_Witness ==
    \E o \in DOMAIN orders :
        /\ orders[o].status = "CANCELLED"
        /\ Len(orders[o].items) >= 1
        /\ o < Len(orders)
        /\ \E k \in DOMAIN movements : movements[k].reason = "Cancelacion"

\* C20: the ledger is append-only: every step leaves every committed movement
\* unchanged and in place, so the ledger after it extends the ledger before.
C20_LedgerAppendOnly ==
    [][/\ Len(movements') >= Len(movements)
       /\ SubSeq(movements', 1, Len(movements)) = movements]_vars

\* C20 witness: a sale, a cancellation and a manual movement followed one
\* another in the ledger
C20_Witness ==
    /\ Len(movements) = 3
    /\ movements[1].reason # movements[2].reason
    /\ movements[2].reason # movements[3].reason
    /\ movements[1].reason # movements[3].reason

\* the requests of product p that have read the product and not yet counted
Visiting(p) == {s \in Sessions : visit[s].pc = "increment" /\ visit[s].id = p}

\* C21: each get_product_by_id call on an existing product raises its
\* views_count by exactly one, however the calls overlap: the counter of a
\* product equals the number of calls made for it minus those still between
\* their SELECT and their UPDATE; calls for a missing product change no counter.
C21_ViewsCountCalls ==
    \A p \in Products : views_count[p] = visits[p] - Cardinality(Visiting(p))

\* a call has counted its view while another call, which read the product
\* before that, is still to count, and a missing product has been asked for
C21_Witness ==
    /\ \E s \in Sessions : /\ visit[s].pc = "increment"
                            /\ visit[s].seen < views_count[visit[s].id]
    /\ visits[MissingProduct] > 0

\* the ids of the orders of user u in the orders table os
OrdersOf(os, u) == {id \in DOMAIN os : os[id].user_id = u}

\* C22: get_user_orders(u) returns exactly the orders whose owner is u, each
\* once and as stored, and no order of another user, whatever orders other
\* users have and whatever their statuses are.
C22_OnlyOwnOrders ==
    last.req.op = "get_my_orders" =>
        LET u == last.req.user_id
            os == last.pre.orders
        IN  /\ \A k \in DOMAIN last.listed :
                   /\ last.listed[k].order.user_id = u
                   /\ last.listed[k].id \in DOMAIN os
                   /\ last.listed[k].order = os[last.listed[k].id]
            /\ {last.listed[k].id : k \in DOMAIN last.listed} = OrdersOf(os, u)
            /\ Len(last.listed) = Cardinality(OrdersOf(os, u))

\* a user lists their orders while another user has an order, cancelled since
C22_Witness ==
    /\ last.req.op = "get_my_orders"
    /\ Len(last.listed) > 0
    /\ \E id \in DOMAIN orders : /\ orders[id].user_id # last.req.user_id
                                  /\ orders[id].status = "CANCELLED"

\* the units the first n movements return to product p for the cancellation
\* of the order numbered order_number
RECURSIVE ReturnedQty(_, _, _)
ReturnedQty(order_number, n, p) ==
    IF n = 0 THEN 0
    ELSE ReturnedQty(order_number, n - 1, p)
         + (IF /\ movements[n].reason = "Cancelacion"
               /\ movements[n].movement_type = "ENTRADA"
               /\ movements[n].order_number = order_number
               /\ movements[n].product_id = p
            THEN movements[n].quantity ELSE 0)

\* C23: the stock of an order is returned at most once: for every order and
\* product, the quantities of the cancellation ENTRADA movements of that order
\* never exceed the quantities of its line items.
C23_StockReturnedOnce ==
    \A id \in DOMAIN orders : \A p \in Products :
        ReturnedQty(orders[id].order_number, Len(movements), p)
            <= OrderedQty(orders[id].items, Len(orders[id].items), p)

\* what the first n movements of the ledger add to the stock of product p
RECURSIVE LedgerBalance(_, _)
LedgerBalance(n, p) ==
    IF n = 0 THEN 0
    ELSE LedgerBalance(n - 1, p)
         + (IF movements[n].product_id # p THEN 0
            ELSE IF movements[n].movement_type = "SALIDA" THEN 0 - movements[n].quantity
            ELSE movements[n].quantity)

\* C24: stock is conserved under every interleaving: in every committed state
\* the stock of a product is its initial stock plus the quantities of its
\* ENTRADA and AJUSTE movements minus the quantities of its SALIDA movements.
C24_StockConserved ==
    \A p \in Products : stock[p] = InitStock + LedgerBalance(Len(movements), p)

\* C25: an order whose status is PENDING, CONFIRMED, SHIPPED or DELIVERED has
\* no cancellation ENTRADA movement in the ledger.
C25_LiveOrdersNeverRestocked ==
    \A id \in DOMAIN orders :
        orders[id].status \in {"PENDING", "CONFIRMED", "SHIPPED", "DELIVERED"} =>
            \A k \in DOMAIN movements :
                ~(/\ movements[k].reason = "Cancelacion"
                  /\ movements[k].movement_type = "ENTRADA"
                  /\ movements[k].order_number = orders[id].order_number)

\* the request just answered was a create_order of two lines for one product
TwoLinesOneProduct ==
    /\ CreateOrderEnded
    /\ Len(last.req.items) = 2
    /\ last.req.items[1].product_id = last.req.items[2].product_id
    /\ last.req.items[1].product_id \in Products

\* C26: when a product P of stock s appears on two lines (P, a), (P, b), each
\* line is validated against the stock left by the earlier line: the order
\* succeeds only if a + b <= s, then leaves stock s - a - b and appends the
\* movements (s -> s - a) and (s - a -> s - a - b); when a + b > s the call
\* fails and changes nothing.
C26_RepeatedProductLines ==
    TwoLinesOneProduct =>
        LET p == last.req.items[1].product_id
            a == last.req.items[1].quantity
            b == last.req.items[2].quantity
            s == last.pre.stock[p]
            n0 == Len(last.pre.movements)
        IN  /\ last.res = 201 =>
                   /\ a + b <= s
                   /\ stock[p] = s - a - b
                   /\ Len(movements) = n0 + 2
                   /\ \A k \in 1..2 : /\ movements[n0 + k].product_id = p
                                       /\ movements[n0 + k].movement_type = "SALIDA"
                   /\ movements[n0 + 1].quantity = a
                   /\ movements[n0 + 1].stock_before = s
                   /\ movements[n0 + 1].stock_after = s - a
                   /\ movements[n0 + 2].quantity = b
                   /\ movements[n0 + 2].stock_before = s - a
                   /\ movements[n0 + 2].stock_after = s - a - b
            /\ a + b > s => (last.res = 400 /\ DatabaseUntouched)

\* an order of two lines for one product succeeded
C26_Witness == TwoLinesOneProduct /\ last.res = 201

\* an order of two lines for one product failed on its second line
C26_WitnessSecondLine ==
    /\ TwoLinesOneProduct
    /\ last.res = 400
    /\ last.req.items[1].quantity <= last.pre.stock[last.req.items[1].product_id]

\* the request just answered was an update_status to a status other than
\* CANCELLED, of an order that exists
StatusSetEnded ==
    /\ last.req.op = "update_status"
    /\ last.req.new_status # "CANCELLED"
    /\ last.res = 200

\* C27: update_status with a new status other than CANCELLED changes only the
\* status of the addressed order: every product's stock, the ledger, the rest
\* of that order and every other order are as they were.
C27_StatusChangeFrame ==
    StatusSetEnded =>
        /\ stock = last.pre.stock
        /\ movements = last.pre.movements
        /\ last.req.order_id \in DOMAIN last.pre.orders
        /\ orders = [last.pre.orders EXCEPT
                         ![last.req.order_id].status = last.req.new_status]

\* an order with an item was set to SHIPPED while another order and ledger
\* entries existed
C27_Witness ==
    /\ StatusSetEnded
    /\ last.req.new_status = "SHIPPED"
    /\ last.pre.orders[last.req.order_id].status # "SHIPPED"
    /\ Len(orders[last.req.order_id].items) > 0
    /\ Len(orders) >= 2
    /\ Len(movements) > 0

\* line k of items is valid against the stock st left by the lines before it
LineValid(items, k, st) ==
    /\ items[k].product_id \in Products
    /\ items[k].quantity <= st[items[k].product_id]
                             - OrderedQty(items, k - 1, items[k].product_id)

\* C28: create_order examines the lines in request order and fails on the
\* first offending line: the error is 404 when that line's product is missing
\* and 400 when its stock is short, whatever the later lines hold, nothing is
\* written, and the handler never goes on to a line after an offending one.
C28_FirstOffendingLineDecides ==
    /\ (CreateOrderEnded /\ FirstOffending(last.req.items) # 0) =>
           /\ last.res = IF LineMissing(last.req.items, FirstOffending(last.req.items))
                         THEN 404 ELSE 400
           /\ DatabaseUntouched
    /\ \A s \in DOMAIN sess :
           sess[s].pc = "co_update" =>
               \A k \in 1..sess[s].i : LineValid(sess[s].req.items, k, stock)

\* an order failed with 400 on a first line short of stock, its second line
\* naming a missing product
C28_Witness ==
    /\ CreateOrderEnded
    /\ Len(last.req.items) = 2
    /\ LineShort(last.req.items, 1)
    /\ LineMissing(last.req.items, 2)
    /\ last.res = 400

\* an order failed with 404 on a first line naming a missing product, its
\* second line being short of stock
C28_WitnessMissingFirst ==
    /\ CreateOrderEnded
    /\ Len(last.req.items) = 2
    /\ LineMissing(last.req.items, 1)
    /\ LineOverStock(last.req.items, 2)
    /\ last.res = 404

\* C29: create_order with an empty list of lines succeeds: it creates a
\* PENDING order without items whose subtotal and total are 0, changes no
\* product's stock and appends no movement.
C29_EmptyOrderSucceeds ==
    (CreateOrderEnded /\ last.req.items = <<>>) =>
        /\ last.res = 201
        /\ Len(orders) = Len(last.pre.orders) + 1
        /\ SubSeq(orders, 1, Len(last.pre.orders)) = last.pre.orders
        /\ orders[Len(orders)].user_id = last.req.user_id
        /\ orders[Len(orders)].status = "PENDING"
        /\ orders[Len(orders)].items = <<>>
        /\ orders[Len(orders)].subtotal = 0
        /\ orders[Len(orders)].total = 0
        /\ stock = last.pre.stock
        /\ movements = last.pre.movements

\* the email or the username of request user_in belongs to a user of table us
Taken(us, user_in) ==
    \E k \in DOMAIN us : us[k].email = user_in.email \/ us[k].username = user_in.username

\* session s has answered a request in this step
Answered(s) == signup'[s] # signup[s] /\ signup'[s].pc = "idle"

\* C30: every user create_user creates has role CUSTOMER and is active,
\* whatever the request contains; a request whose email or username is taken
\* is rejected and creates nothing; a request is answered 201 exactly when it
\* created its user; so no user is an ADMIN and no two users share an email or
\* a username.
C30_CreateUser ==
    [][/\ users' # users =>
             \E s \in Sessions :
                 /\ Answered(s)
                 /\ ~Taken(users, signup'[s].user_in)
                 /\ users' = Append(users,
                                    [email |-> signup'[s].user_in.email,
                                     username |-> signup'[s].user_in.username,
                                     role |-> "CUSTOMER", is_active |-> TRUE])
       /\ \A s \in Sessions :
             Answered(s) =>
                 /\ signup'[s].res = 201 <=> users' # users
                 /\ Taken(users, signup'[s].user_in) =>
                        (users' = users /\ signup'[s].res \in {400, 500})
       /\ \A k \in DOMAIN users' :
             /\ users'[k].role = "CUSTOMER"
             /\ users'[k].is_active
             /\ \A j \in DOMAIN users' :
                    (users'[j].email = users'[k].email
                       \/ users'[j].username = users'[k].username) => j = k
      ]_vars

\* a request asking for an inactive ADMIN account was answered 201, and a
\* request whose email was taken was rejected
C30_Witness ==
    /\ \E s \in Sessions : /\ signup[s].res = 201
                            /\ signup[s].pc = "idle"
                            /\ signup[s].user_in.role = "ADMIN"
                            /\ ~signup[s].user_in.is_active
    /\ \E s \in Sessions : /\ signup[s].res = 400
                            /\ signup[s].pc = "idle"
                            /\ get_by_email(signup[s].user_in.email) # {}

\* two overlapping requests for one email: the later INSERT was refused
C30_WitnessRace ==
    \E s \in Sessions : /\ signup[s].res = 500
                        /\ get_by_email(signup[s].user_in.email) # {}

====
